---------------------------- MODULE Spec2Model ----------------------------
(***************************************************************************)
(* Football season simulator: the SQLite store (database/db_manager.py),   *)
(* the Streamlit session flow that drives it (streamlit_app.py), the match *)
(* simulator (simulation/match_sim.py) and the scraper's pipeline that     *)
(* fills the store (scraper/fixtures_scraper/pipelines.py).                *)
(*                                                                         *)
(* Tables are modelled by their rows in rowid order: `teams` is the        *)
(* insertion order of teams / league_table, `fixtures` is the fixtures     *)
(* table indexed by id (AUTOINCREMENT, rows are never deleted).            *)
(*                                                                         *)
(* The operations are atomic steps, as the write lock of the database file *)
(* makes them; SpecConn follows update_league_table statement by statement *)
(* beside other connections and SpecSessions follows the advance handler   *)
(* of two browser sessions call by call.                                   *)
(***************************************************************************)
EXTENDS Integers, Sequences, FiniteSets, TLC

VARIABLES
    teams,             \* Seq of team names: rows of teams / league_table in rowid order
    fixtures,          \* Seq of fixture rows; the id of a row is its index
    league_table,      \* team name -> standings row (table league_table)
    current_gameweek,  \* game_state.current_gameweek
    user_team,         \* game_state.user_team
    sim_call,          \* arguments of the last MatchSimulator.simulate_match call
    rng,               \* the random draws that call consumed
    result,            \* the dict that call returned
    op,                \* the last store operation run (the last one a handler ran)
    txn,               \* the update_league_table transaction in flight on its connection
    handlers           \* per session, where its "Advance to Next Gameweek" handler stands

vars == <<teams, fixtures, league_table, current_gameweek, user_team,
          sim_call, rng, result, op, txn, handlers>>

storeVars == <<teams, fixtures, league_table, current_gameweek, user_team>>
simVars == <<sim_call, rng, result>>
procVars == <<txn, handlers>>

----------------------------------------------------------------------------
(* Bounds of the model *)

MaxFixtures == 2       \* rows in the fixtures table
MaxGameweek == 2       \* cap on the current_gameweek counter and on gameweek inputs
MaxGoalInput == 1      \* goals typed in / passed to update_fixture_result: 0..MaxGoalInput

(* SQL NULL in the integer columns home_goals / away_goals *)
NULL == -1

(* Teams of setup_premier_league_teams, in the order of its list; the loop *)
(* adds them one by one                                                    *)
SetupTeams ==
    << [name |-> "Arsenal",          attack |-> 85, defense |-> 80, overall |-> 83],
       [name |-> "Chelsea",          attack |-> 78, defense |-> 75, overall |-> 77],
       [name |-> "Sheffield United", attack |-> 45, defense |-> 50, overall |-> 48] >>

TeamNames == { SetupTeams[i].name : i \in DOMAIN SetupTeams }

(* Arguments given to add_fixture: <<gameweek, home_team, away_team>> *)
FixtureInputs ==
    { <<1, "Arsenal", "Chelsea">>,
      <<1, "Sheffield United", "Arsenal">>,
      <<2, "Chelsea", "Sheffield United">>,
      <<2, "Chelsea", "Chelsea">> }

(* Alphabetical order of the names (ORDER BY home_team, ORDER BY name) *)
NameRank(n) ==
    CASE n = "Arsenal" -> 1
      [] n = "Chelsea" -> 2
      [] n = "Sheffield United" -> 3
      [] OTHER -> 4

(* Gameweeks the pages offer: selectbox(range(1, 39)), number_input(1, 38) *)
SelectableGameweeks == 1..38

(* Where the model stops following current_gameweek: MaxGameweek when the   *)
(* season starts, MaxGameweek past the last selectable one when it ends     *)
GameweekCaps == { MaxGameweek, Cardinality(SelectableGameweeks) + MaxGameweek }

(* add_fixture arguments of the last selectable gameweek *)
LateFixtureInputs ==
    { <<Cardinality(SelectableGameweeks), "Arsenal", "Chelsea">>,
      <<Cardinality(SelectableGameweeks), "Sheffield United", "Arsenal">> }

GoalInputs == 0..MaxGoalInput

(* Integers a caller of DatabaseManager.update_fixture_result or a scraped  *)
(* page can supply: the inputs above and one below zero (NULL's encoding is *)
(* not an integer of the program)                                           *)
ApiGoalInputs == ((NULL - 1)..MaxGoalInput) \ {NULL}

Range(s) == { s[i] : i \in DOMAIN s }

----------------------------------------------------------------------------
(* league_table rows *)

\* column defaults of CREATE TABLE league_table; also the reset of update_league_table
ZeroRow ==
    [played |-> 0, won |-> 0, drawn |-> 0, lost |-> 0, goals_for |-> 0,
     goals_against |-> 0, goal_difference |-> 0, points |-> 0]

\* mutant: the reset statement left out
ResetLeagueTableSkipped(table) == table

\* UPDATE league_table SET played=0, ... (no WHERE: every row)
ResetLeagueTable(table) == [t \in DOMAIN table |-> ZeroRow]

\* _update_team_stats: classify the match from this side
MatchPoints(goals_for, goals_against) ==
    IF goals_for > goals_against
    THEN [won |-> 1, drawn |-> 0, lost |-> 0, points |-> 3]
    ELSE IF goals_for = goals_against
         THEN [won |-> 0, drawn |-> 1, lost |-> 0, points |-> 1]
         ELSE [won |-> 0, drawn |-> 0, lost |-> 1, points |-> 0]

\* _update_team_stats: the UPDATE ... WHERE team_name = ?.  Every right-hand
\* side of a SQL UPDATE reads the row as it was before the statement, so
\* goal_difference is computed from the goals_for / goals_against of before.
\* A team without a row is matched by no row: nothing changes.
UpdateTeamStats(table, team, goals_for, goals_against) ==
    IF team \notin DOMAIN table
    THEN table
    ELSE LET r == table[team]
             m == MatchPoints(goals_for, goals_against)
         IN  [table EXCEPT ![team] =
                [played          |-> r.played + 1,
                 won             |-> r.won + m.won,
                 drawn           |-> r.drawn + m.drawn,
                 lost            |-> r.lost + m.lost,
                 goals_for       |-> r.goals_for + goals_for,
                 goals_against   |-> r.goals_against + goals_against,
                 goal_difference |-> r.goals_for - r.goals_against,
                 points          |-> r.points + m.points]]

\* mutant: the WHERE is_played = TRUE left out
SelectPlayedNoWhere(fs) == fs

\* SELECT ... FROM fixtures WHERE is_played = TRUE
SelectPlayed(fs) == SelectSeq(fs, LAMBDA f : f.is_played)

\* the body of the loop of update_league_table: the home side, then the away side
FoldFixture(table, f) ==
    LET afterHome == UpdateTeamStats(table, f.home_team, f.home_goals, f.away_goals)
    IN  UpdateTeamStats(afterHome, f.away_team, f.away_goals, f.home_goals)

\* the loop of update_league_table over the fetched rows, in rowid order
RECURSIVE FoldFixtures(_, _)
FoldFixtures(table, fs) ==
    IF fs = << >>
    THEN table
    ELSE FoldFixtures(FoldFixture(table, Head(fs)), Tail(fs))

\* update_league_table as a function of the stored table and the fixtures
UpdateLeagueTableOp(table, fs) ==
    FoldFixtures(ResetLeagueTable(table), SelectPlayed(fs))

\* mutant: ORDER BY points DESC, goals_for DESC
OrderBeforeNoGoalDifference(a, b) ==
    \/ a.points > b.points
    \/ a.points = b.points /\ a.goals_for > b.goals_for

\* ORDER BY points DESC, goal_difference DESC, goals_for DESC
OrderBefore(a, b) ==
    \/ a.points > b.points
    \/ a.points = b.points /\ a.goal_difference > b.goal_difference
    \/ a.points = b.points /\ a.goal_difference = b.goal_difference
       /\ a.goals_for > b.goals_for

\* the sorter: rows that compare equal keep their scan (rowid) order
RECURSIVE InsertRow(_, _, _)
InsertRow(table, sorted, t) ==
    IF sorted = << >>
    THEN << t >>
    ELSE IF OrderBefore(table[t], table[Head(sorted)])
         THEN << t >> \o sorted
         ELSE << Head(sorted) >> \o InsertRow(table, Tail(sorted), t)

RECURSIVE SortRows(_, _)
SortRows(table, names) ==
    IF names = << >>
    THEN << >>
    ELSE InsertRow(table, SortRows(table, SubSeq(names, 1, Len(names) - 1)),
                   names[Len(names)])

\* get_league_table: the sorted rows with their 1-based position
GetLeagueTableOf(table, names) ==
    LET sorted == SortRows(table, names)
    IN  [i \in DOMAIN sorted |->
            [position |-> i, team |-> sorted[i], row |-> table[sorted[i]]]]

GetLeagueTable == GetLeagueTableOf(league_table, teams)

----------------------------------------------------------------------------
(* game_state and fixtures *)

\* add_fixture: the inserted row; is_user_team from the user team of that moment
NewFixture(gameweek, home_team, away_team, userTeam) ==
    [gameweek |-> gameweek, home_team |-> home_team, away_team |-> away_team,
     home_goals |-> NULL, away_goals |-> NULL, is_played |-> FALSE,
     is_user_team |-> (home_team = userTeam \/ away_team = userTeam)]

\* get_gameweek_fixtures: ids of the fixtures of a gameweek,
\* ORDER BY is_user_team DESC, home_team (ties in rowid order)
GameweekIds(fs, gw) == { i \in DOMAIN fs : fs[i].gameweek = gw }

FixtureBefore(fs, i, j) ==
    LET ui == IF fs[i].is_user_team THEN 1 ELSE 0
        uj == IF fs[j].is_user_team THEN 1 ELSE 0
    IN  \/ ui > uj
        \/ ui = uj /\ NameRank(fs[i].home_team) < NameRank(fs[j].home_team)
        \/ ui = uj /\ NameRank(fs[i].home_team) = NameRank(fs[j].home_team) /\ i < j

\* user_fixtures[0] of show_fixtures_page, 0 when there is none
FirstUserFixture(fs, gw) ==
    LET us == { i \in GameweekIds(fs, gw) : fs[i].is_user_team }
    IN  IF us = {} THEN 0
        ELSE CHOOSE i \in us : \A j \in us \ {i} : FixtureBefore(fs, i, j)

\* all(f['is_played'] for f in fixtures) of show_fixtures_page
AllPlayed(fs, gw) == \A i \in GameweekIds(fs, gw) : fs[i].is_played

\* mutant: the goals added to the ones of a fixture already played
UpdateFixtureResultOpAdding(fs, fixture_id, home_goals, away_goals) ==
    IF fixture_id \notin DOMAIN fs
    THEN fs
    ELSE [fs EXCEPT ![fixture_id] =
            [@ EXCEPT !.home_goals = IF @ = NULL THEN home_goals ELSE @ + home_goals,
                      !.away_goals = IF @ = NULL THEN away_goals ELSE @ + away_goals,
                      !.is_played = TRUE]]

\* UPDATE fixtures SET home_goals = ?, away_goals = ?, is_played = TRUE WHERE id = ?
\* (an id that matches no row updates nothing; the statement still succeeds)
UpdateFixtureResultOp(fs, fixture_id, home_goals, away_goals) ==
    IF fixture_id \notin DOMAIN fs
    THEN fs
    ELSE [fs EXCEPT ![fixture_id] =
            [@ EXCEPT !.home_goals = home_goals, !.away_goals = away_goals,
                      !.is_played = TRUE]]

----------------------------------------------------------------------------
(* MatchSimulator.  Floats are kept as exact fractions: goal potentials in  *)
(* 1/10000, expected goals of the stats level in 1/50, per-game rates of    *)
(* the realistic level in tenths (a stats dict holds 12 for 1.2).           *)

home_advantage == 5       \* self.home_advantage
randomness_factor == 15   \* self.randomness_factor
max_goals == 7            \* self.max_goals
NumChances == 10          \* for _ in range(10)
MaxPoissonDraw == 8       \* largest value drawn from np.random.poisson

Min(a, b) == IF a < b THEN a ELSE b
Max(a, b) == IF a > b THEN a ELSE b

\* mutant: the default argument of dict.get ignored
GetDefaultZero(d, key, default) == IF key \in DOMAIN d THEN d[key] ELSE 0

\* dict.get(key, default)
Get(d, key, default) == IF key \in DOMAIN d THEN d[key] ELSE default

\* int(x) of Python for x = n / d, d > 0: rounds toward zero
IntOf(n, d) == IF n >= 0 THEN n \div d ELSE -((-n) \div d)

\* simulate_basic: home_strength - away_strength
BasicStrengthDiff(home_rating, away_rating, noise_home, noise_away) ==
    (home_rating + home_advantage + noise_home) - (away_rating + noise_away)

\* mutant: a drawn scoreline in the list of the "home team stronger" bucket
BasicScorelinesDrawWhenStronger(strength_diff) ==
    IF strength_diff > 20
    THEN << <<3, 0>>, <<2, 0>>, <<3, 1>>, <<4, 1>>, <<2, 1>> >>
    ELSE IF strength_diff > 10
    THEN << <<2, 1>>, <<1, 1>>, <<3, 2>>, <<2, 0>> >>
    ELSE IF strength_diff < -20
    THEN << <<0, 3>>, <<0, 2>>, <<1, 3>>, <<1, 4>>, <<1, 2>> >>
    ELSE IF strength_diff < -10
    THEN << <<1, 2>>, <<0, 1>>, <<2, 3>>, <<0, 2>> >>
    ELSE << <<1, 1>>, <<0, 0>>, <<2, 2>>, <<1, 0>>, <<0, 1>>, <<2, 1>>, <<1, 2>> >>

\* simulate_basic: the list handed to random.choice
BasicScorelines(strength_diff) ==
    IF strength_diff > 20
    THEN << <<3, 0>>, <<2, 0>>, <<3, 1>>, <<4, 1>>, <<2, 1>> >>
    ELSE IF strength_diff > 10
    THEN << <<2, 1>>, <<1, 0>>, <<3, 2>>, <<2, 0>> >>
    ELSE IF strength_diff < -20
    THEN << <<0, 3>>, <<0, 2>>, <<1, 3>>, <<1, 4>>, <<1, 2>> >>
    ELSE IF strength_diff < -10
    THEN << <<1, 2>>, <<0, 1>>, <<2, 3>>, <<0, 2>> >>
    ELSE << <<1, 1>>, <<0, 0>>, <<2, 2>>, <<1, 0>>, <<0, 1>>, <<2, 1>>, <<1, 2>> >>

\* what simulate_basic can draw: the two noises and the index random.choice picks
BasicDraws(home_rating, away_rating) ==
    { [kind |-> "basic", noise_home |-> nh, noise_away |-> na, choice |-> c] :
        nh \in -randomness_factor..randomness_factor,
        na \in -randomness_factor..randomness_factor,
        c \in 1..7 }

SimulateBasic(home_rating, away_rating, d) ==
    LET list == BasicScorelines(
                    BasicStrengthDiff(home_rating, away_rating, d.noise_home, d.noise_away))
    IN  list[d.choice]

\* simulate_rating_based: max(0, (attack - defense + base) / 100) * uniform(0.7, 1.4),
\* in 1/10000 with the uniform draw in percent
GoalPotential(attack, defense, base, factor) == Max(0, attack - defense + base) * factor

\* how many of the NumChances draws random.random() < potential can succeed:
\* random() is in [0, 1), so none when potential <= 0 and all when potential >= 1
HitsPossible(potential) ==
    IF potential <= 0 THEN {0}
    ELSE IF potential >= 10000 THEN {NumChances}
    ELSE 0..NumChances

FactorDraws == {70, 100, 140}

\* mutant: the min(..., self.max_goals) left out
SimulateRatingBasedNoCap(home_attack, home_defense, away_attack, away_defense, d) ==
    << d.hits_home, d.hits_away >>

SimulateRatingBased(home_attack, home_defense, away_attack, away_defense, d) ==
    << Min(d.hits_home, max_goals), Min(d.hits_away, max_goals) >>

\* simulate_with_stats: home_strength += motivation
MotivationAdded(motivation) == motivation

\* mutant: the half rounded toward zero
MotivationRemovedTruncated(motivation) == IntOf(motivation, 2)

\* simulate_with_stats: away_strength -= motivation // 2 (// rounds down)
MotivationRemoved(motivation) == motivation \div 2

\* simulate_with_stats up to strength_diff
\* mutant: the fatigue taken from the home side only
StatsStrengthDiffHomeFatigue(home_stats, away_stats, gameweek, d) ==
    LET fatigue == IF gameweek > 30 THEN d.fatigue ELSE 0
        home_strength == Get(home_stats, "overall_rating", 50) + home_advantage
                         + Get(home_stats, "recent_form", 0) * 2
                         - fatigue + MotivationAdded(d.motivation)
        away_strength == Get(away_stats, "overall_rating", 50)
                         + Get(away_stats, "recent_form", 0) * 2
                         - MotivationRemoved(d.motivation)
    IN  home_strength - away_strength

StatsStrengthDiff(home_stats, away_stats, gameweek, d) ==
    LET fatigue == IF gameweek > 30 THEN d.fatigue ELSE 0
        home_strength == Get(home_stats, "overall_rating", 50) + home_advantage
                         + Get(home_stats, "recent_form", 0) * 2
                         - fatigue + MotivationAdded(d.motivation)
        away_strength == Get(away_stats, "overall_rating", 50)
                         + Get(away_stats, "recent_form", 0) * 2
                         - fatigue - MotivationRemoved(d.motivation)
    IN  home_strength - away_strength

\* base_goals + max(0, strength_diff / 25), in 1/50
StatsExpected(strength_diff) == 65 + Max(0, 2 * strength_diff)

\* deviations of np.random.normal from its mean, in 1/50
NormalDraws == {-200, -40, 0, 40, 400}

SimulateWithStats(home_stats, away_stats, gameweek, d) ==
    LET diff == StatsStrengthDiff(home_stats, away_stats, gameweek, d)
        home_goals == Max(0, IntOf(StatsExpected(diff) + d.normal_home, 50))
        away_goals == Max(0, IntOf(StatsExpected(-diff) + d.normal_away, 50))
    IN  << Min(home_goals, max_goals), Min(away_goals, max_goals) >>

\* simulate_realistic_stats: expected goals ((attack + defense) / 2) * form_mult,
\* in 1/400 (rates in tenths, form_mult = (15 + form_goals_last_5) / 20)
RealisticExpected(attack_rate, defense_rate, form_goals) ==
    (attack_rate + defense_rate) * (15 + form_goals)

HomeExpected(home_stats, away_stats) ==
    RealisticExpected(Get(home_stats, "goals_per_game_home", 12),
                      Get(away_stats, "goals_conceded_per_game_away", 14),
                      Get(home_stats, "form_goals_last_5", 5))

AwayExpected(home_stats, away_stats) ==
    RealisticExpected(Get(away_stats, "goals_per_game_away", 10),
                      Get(home_stats, "goals_conceded_per_game_home", 12),
                      Get(away_stats, "form_goals_last_5", 5))

\* np.random.poisson(lam): 0 when lam = 0, any count otherwise (lam < 0 raises)
PoissonPossible(lam) == IF lam = 0 THEN {0} ELSE 0..MaxPoissonDraw

SimulateRealisticStats(home_stats, away_stats, d) ==
    << Min(Max(0, d.poisson_home), max_goals), Min(Max(0, d.poisson_away), max_goals) >>

SimulationLevels == {"basic", "rating", "stats", "realistic", "expert"}

\* the draws one call of simulate_match can consume, by the level it dispatches to
DrawsOf(home_stats, away_stats, level, gameweek) ==
    CASE level = "rating" ->
            { [kind |-> "rating", factor_home |-> fh, factor_away |-> fa,
               hits_home |-> kh, hits_away |-> ka] :
                fh \in FactorDraws, fa \in FactorDraws,
                kh \in 0..NumChances, ka \in 0..NumChances }
      [] level = "stats" ->
            { [kind |-> "stats", fatigue |-> f, motivation |-> m,
               normal_home |-> zh, normal_away |-> za] :
                f \in (IF gameweek > 30 THEN 2..5 ELSE {0}), m \in -8..8,
                zh \in NormalDraws, za \in NormalDraws }
      [] level = "realistic" ->
            { [kind |-> "realistic", poisson_home |-> kh, poisson_away |-> ka] :
                kh \in 0..MaxPoissonDraw, ka \in 0..MaxPoissonDraw }
      [] OTHER ->
            BasicDraws(Get(home_stats, "overall_rating", 50),
                       Get(away_stats, "overall_rating", 50))

\* whether the generator can produce the draws d for these arguments
DrawsPossible(home_stats, away_stats, level, gameweek, d) ==
    CASE level = "rating" ->
            /\ d.hits_home \in HitsPossible(
                    GoalPotential(Get(home_stats, "attack_rating", 50),
                                  Get(away_stats, "defense_rating", 50), 50, d.factor_home))
            /\ d.hits_away \in HitsPossible(
                    GoalPotential(Get(away_stats, "attack_rating", 50),
                                  Get(home_stats, "defense_rating", 50), 40, d.factor_away))
      [] level = "stats" -> TRUE
      [] level = "realistic" ->
            /\ d.poisson_home \in PoissonPossible(HomeExpected(home_stats, away_stats))
            /\ d.poisson_away \in PoissonPossible(AwayExpected(home_stats, away_stats))
      [] OTHER ->
            d.choice <= Len(BasicScorelines(BasicStrengthDiff(
                            Get(home_stats, "overall_rating", 50),
                            Get(away_stats, "overall_rating", 50),
                            d.noise_home, d.noise_away)))

\* the level names simulate_match tests for
KnownLevels == {"basic", "rating", "stats", "realistic"}

\* mutant: the final else unpacks simulate_basic's pair the other way round
SimulateGoalsElseSwapped(home_stats, away_stats, level, gameweek, d) ==
    IF level = "basic"
    THEN SimulateBasic(Get(home_stats, "overall_rating", 50),
                       Get(away_stats, "overall_rating", 50), d)
    ELSE IF level = "rating"
    THEN SimulateRatingBased(Get(home_stats, "attack_rating", 50),
                             Get(home_stats, "defense_rating", 50),
                             Get(away_stats, "attack_rating", 50),
                             Get(away_stats, "defense_rating", 50), d)
    ELSE IF level = "stats"
    THEN SimulateWithStats(home_stats, away_stats, gameweek, d)
    ELSE IF level = "realistic"
    THEN SimulateRealisticStats(home_stats, away_stats, d)
    ELSE LET goals == SimulateBasic(Get(home_stats, "overall_rating", 50),
                                    Get(away_stats, "overall_rating", 50), d)
         IN  <<goals[2], goals[1]>>

\* simulate_match: the dispatch on simulation_level
SimulateGoals(home_stats, away_stats, level, gameweek, d) ==
    IF level = "basic"
    THEN SimulateBasic(Get(home_stats, "overall_rating", 50),
                       Get(away_stats, "overall_rating", 50), d)
    ELSE IF level = "rating"
    THEN SimulateRatingBased(Get(home_stats, "attack_rating", 50),
                             Get(home_stats, "defense_rating", 50),
                             Get(away_stats, "attack_rating", 50),
                             Get(away_stats, "defense_rating", 50), d)
    ELSE IF level = "stats"
    THEN SimulateWithStats(home_stats, away_stats, gameweek, d)
    ELSE IF level = "realistic"
    THEN SimulateRealisticStats(home_stats, away_stats, d)
    ELSE SimulateBasic(Get(home_stats, "overall_rating", 50),
                       Get(away_stats, "overall_rating", 50), d)

\* mutant: >= for > in the first comparison
ResultOfHomeOnDraw(home_goals, away_goals) ==
    IF home_goals >= away_goals THEN "H"
    ELSE IF away_goals > home_goals THEN "A"
    ELSE "D"

\* simulate_match: "Determine result"
ResultOf(home_goals, away_goals) ==
    IF home_goals > away_goals THEN "H"
    ELSE IF away_goals > home_goals THEN "A"
    ELSE "D"

\* a rating that is None: dict.get returns it (the key is there) and the first
\* arithmetic on it raises TypeError
NonNumeric(stats, key) == Get(stats, key, 50) = NULL

\* simulate_match: np.random.poisson raises ValueError on a negative mean; the
\* other levels raise TypeError when a rating they compute with is not a number
Raises(home_stats, away_stats, level) ==
    IF level = "realistic"
    THEN \/ HomeExpected(home_stats, away_stats) < 0
         \/ AwayExpected(home_stats, away_stats) < 0
    ELSE IF level = "rating"
    THEN \/ NonNumeric(home_stats, "attack_rating")
         \/ NonNumeric(home_stats, "defense_rating")
         \/ NonNumeric(away_stats, "attack_rating")
         \/ NonNumeric(away_stats, "defense_rating")
    ELSE \/ NonNumeric(home_stats, "overall_rating")
         \/ NonNumeric(away_stats, "overall_rating")

\* simulate_match: the returned dict
SimulateMatchOp(home_stats, away_stats, level, gameweek, d) ==
    LET goals == SimulateGoals(home_stats, away_stats, level, gameweek, d)
    IN  [home_goals |-> goals[1], away_goals |-> goals[2],
         result |-> ResultOf(goals[1], goals[2]),
         simulation_level |-> level]

\* get_result_probability returns float literals.  A double is kept exactly
\* as <<hi, lo>>, its value in units of 2^-56 being hi * 2^28 + lo.
LimbBase == 2^28

\* the double a literal of the source denotes, by its hundredths
FloatLiteral(hundredths) ==
    CASE hundredths = 10 -> << 26843545, 161061274>>
      [] hundredths = 15 -> << 40265318, 107374182>>
      [] hundredths = 20 -> << 53687091,  53687092>>
      [] hundredths = 25 -> << 67108864,         0>>
      [] hundredths = 30 -> << 80530636, 214748364>>
      [] hundredths = 35 -> << 93952409, 161061272>>
      [] hundredths = 45 -> <<120795955,  53687092>>
      [] hundredths = 50 -> <<134217728,         0>>
      [] hundredths = 55 -> <<147639500, 214748368>>
      [] hundredths = 65 -> <<174483046, 107374184>>
      [] hundredths = 70 -> <<187904819,  53687088>>

\* the spacing of the doubles around a value, in units of 2^-56 (53 significant bits)
UlpOf(hi) ==
    IF hi >= 2 * LimbBase THEN 32
    ELSE IF hi >= LimbBase THEN 16
    ELSE IF hi >= LimbBase \div 2 THEN 8
    ELSE IF hi >= LimbBase \div 4 THEN 4
    ELSE IF hi >= LimbBase \div 8 THEN 2
    ELSE 1

\* round to nearest double, ties to even
RoundToDouble(hi, lo) ==
    LET u == UlpOf(hi)
        r == lo % u
        down == lo - r
        up == down + u
        chosen == IF 2 * r < u THEN down
                  ELSE IF 2 * r > u THEN up
                  ELSE IF (lo \div u) % 2 = 0 THEN down ELSE up
    IN  IF chosen = LimbBase THEN <<hi + 1, 0>> ELSE <<hi, chosen>>

\* a + b of two floats
DoubleAdd(a, b) ==
    LET lo == a[2] + b[2]
    IN  RoundToDouble(a[1] + b[1] + (lo \div LimbBase), lo % LimbBase)

\* get_result_probability: rating_diff
RatingDiff(home_stats, away_stats) ==
    (Get(home_stats, "overall_rating", 50) + home_advantage)
        - Get(away_stats, "overall_rating", 50)

\* mutant: >= for > at the first boundary
ProbabilityHundredthsInclusive(rating_diff) ==
    IF rating_diff >= 20 THEN <<70, 20, 10>>
    ELSE IF rating_diff > 10 THEN <<55, 25, 20>>
    ELSE IF rating_diff > 0 THEN <<45, 30, 25>>
    ELSE IF rating_diff > -10 THEN <<35, 30, 35>>
    ELSE IF rating_diff > -20 THEN <<25, 25, 50>>
    ELSE <<15, 20, 65>>

\* get_result_probability: the literals of the returned dict, in hundredths
ProbabilityHundredths(rating_diff) ==
    IF rating_diff > 20 THEN <<70, 20, 10>>
    ELSE IF rating_diff > 10 THEN <<55, 25, 20>>
    ELSE IF rating_diff > 0 THEN <<45, 30, 25>>
    ELSE IF rating_diff > -10 THEN <<35, 30, 35>>
    ELSE IF rating_diff > -20 THEN <<25, 25, 50>>
    ELSE <<15, 20, 65>>

\* get_result_probability: the returned dict
GetResultProbabilityOp(home_stats, away_stats) ==
    LET h == ProbabilityHundredths(RatingDiff(home_stats, away_stats))
    IN  [home_win |-> FloatLiteral(h[1]), draw |-> FloatLiteral(h[2]),
         away_win |-> FloatLiteral(h[3])]

\* overall ratings handed to the estimator: 1..100, or a dict without the key
ProbabilityStats == { [overall_rating |-> r] : r \in 1..100 } \cup { << >> }

\* get_team_stats: the ratings of a stored team, None (<< >>) for an unknown one;
\* goals_scored, goals_conceded and games_played are never written and stay 0
GetTeamStats(names, team) ==
    IF team \notin Range(names)
    THEN << >>
    ELSE LET t == CHOOSE x \in Range(SetupTeams) : x.name = team
         IN  [attack_rating |-> t.attack, defense_rating |-> t.defense,
              overall_rating |-> t.overall, goals_scored |-> 0,
              goals_conceded |-> 0, games_played |-> 0]

\* <<home_stats, away_stats>> of the calls
StatsPairs ==
    LET ars == GetTeamStats(<<"Arsenal">>, "Arsenal")
        shu == GetTeamStats(<<"Sheffield United">>, "Sheffield United")
        dflt == [overall_rating |-> 50]
        full == [overall_rating |-> 70, recent_form |-> 2, goals_per_game_home |-> 20,
                 goals_conceded_per_game_home |-> 0, goals_per_game_away |-> 0,
                 goals_conceded_per_game_away |-> 10, form_goals_last_5 |-> 9]
    IN  { <<ars, shu>>, <<shu, ars>>, <<dflt, dflt>>, <<full, dflt>>, <<shu, full>>,
          << << >>, ars >> }

\* gameweek defaults to 1; the stats level is also called on both sides of 30
SimCalls ==
    { [home_stats |-> p[1], away_stats |-> p[2], simulation_level |-> level,
       gameweek |-> gw] :
        p \in StatsPairs, level \in SimulationLevels, gw \in {1, 30, 31} }

\* ratings simulate_match can be handed that are no rating: None, and integers
\* outside 1..100
MalformedRatings == {NULL, 0, 150}

\* calls of simulate_match in which one side's ratings are malformed
MalformedCalls ==
    LET bad(r) == [attack_rating |-> r, defense_rating |-> r, overall_rating |-> r]
        ars == GetTeamStats(<<"Arsenal">>, "Arsenal")
        dflt == [overall_rating |-> 50]
    IN  { [home_stats |-> p[1], away_stats |-> p[2], simulation_level |-> level,
           gameweek |-> 1] :
            p \in { <<bad(r), o>> : r \in MalformedRatings, o \in {ars, dflt} }
                  \cup { <<o, bad(r)>> : r \in MalformedRatings, o \in {ars, dflt} },
            level \in SimulationLevels }

NoCall == [home_stats |-> << >>, away_stats |-> << >>, simulation_level |-> "", gameweek |-> 0]
NoDraws == [kind |-> ""]
NoResult == [home_goals |-> NULL, away_goals |-> NULL, result |-> "", simulation_level |-> ""]

\* no update_league_table in flight; no session inside its advance handler
Sessions == {1, 2}
NoTxn == [pc |-> "idle", rows |-> << >>, table |-> << >>, before |-> << >>,
          waiting |-> << >>]
NoHandlers == [s \in Sessions |-> "idle"]

----------------------------------------------------------------------------
(* Initial state: init_database on an empty file *)


Init ==
    /\ teams = << >>
    /\ fixtures = << >>
    /\ league_table = << >>
    /\ current_gameweek = 1
    /\ user_team = "Sheffield United"
    /\ sim_call = NoCall
    /\ rng = NoDraws
    /\ result = NoResult
    /\ op = "init_database"
    /\ txn = NoTxn
    /\ handlers = NoHandlers

----------------------------------------------------------------------------
(* Operations of DatabaseManager *)

\* add_team: INSERT INTO teams, INSERT OR IGNORE INTO league_table
\* (an existing name raises IntegrityError and nothing is stored)
AddTeam(t) ==
    /\ t.name \notin Range(teams)
    /\ teams' = Append(teams, t.name)
    /\ league_table' = [n \in DOMAIN league_table \cup {t.name} |->
                          IF n \in DOMAIN league_table THEN league_table[n] ELSE ZeroRow]
    /\ op' = "add_team"
    /\ UNCHANGED <<fixtures, current_gameweek, user_team, simVars, procVars>>

\* mutant: add_fixture also moves the season to the fixture's gameweek
AddFixtureMovingGameweek(gameweek, home_team, away_team) ==
    /\ Len(fixtures) < MaxFixtures
    /\ fixtures' = Append(fixtures, NewFixture(gameweek, home_team, away_team, user_team))
    /\ current_gameweek' = gameweek
    /\ op' = "add_fixture"
    /\ UNCHANGED <<teams, league_table, user_team, simVars, procVars>>

\* add_fixture: the teams are not looked up; is_user_team from the current user team
AddFixture(gameweek, home_team, away_team) ==
    /\ Len(fixtures) < MaxFixtures
    /\ fixtures' = Append(fixtures, NewFixture(gameweek, home_team, away_team, user_team))
    /\ op' = "add_fixture"
    /\ UNCHANGED <<teams, league_table, current_gameweek, user_team, simVars, procVars>>

\* update_fixture_result
UpdateFixtureResult(fixture_id, home_goals, away_goals) ==
    /\ fixtures' = UpdateFixtureResultOp(fixtures, fixture_id, home_goals, away_goals)
    /\ op' = "update_fixture_result"
    /\ UNCHANGED <<teams, league_table, current_gameweek, user_team, simVars, procVars>>

\* update_league_table
UpdateLeagueTable ==
    /\ league_table' = UpdateLeagueTableOp(league_table, fixtures)
    /\ op' = "update_league_table"
    /\ UNCHANGED <<teams, fixtures, current_gameweek, user_team, simVars, procVars>>

\* advance_gameweek: UPDATE game_state SET current_gameweek = current_gameweek + 1
\* (the counter is followed up to the caps of the model)
AdvanceGameweek ==
    /\ current_gameweek \notin GameweekCaps
    /\ current_gameweek' = current_gameweek + 1
    /\ op' = "advance_gameweek"
    /\ UNCHANGED <<teams, fixtures, league_table, user_team, simVars, procVars>>

\* one iteration of the loop of setup_premier_league_teams
SetupNextTeam ==
    /\ Len(teams) < Len(SetupTeams)
    /\ AddTeam(SetupTeams[Len(teams) + 1])

\* reset_season: fixtures back to unplayed, standings zeroed, gameweek 1
ResetSeason ==
    /\ fixtures' = [i \in DOMAIN fixtures |->
                      [fixtures[i] EXCEPT !.home_goals = NULL, !.away_goals = NULL,
                                          !.is_played = FALSE]]
    /\ league_table' = ResetLeagueTable(league_table)
    /\ current_gameweek' = 1
    /\ op' = "reset_season"
    /\ UNCHANGED <<teams, user_team, simVars, procVars>>

\* MatchSimulator.simulate_match called directly: the call and the draws the
\* generator will hand out are in sim_call and rng, the returned dict goes to result
SimulateMatch ==
    /\ op = "call_simulate_match"
    /\ ~Raises(sim_call.home_stats, sim_call.away_stats, sim_call.simulation_level)
    /\ result' = SimulateMatchOp(sim_call.home_stats, sim_call.away_stats,
                                 sim_call.simulation_level, sim_call.gameweek, rng)
    /\ op' = "simulate_match"
    /\ UNCHANGED <<storeVars, sim_call, rng, procVars>>

Next ==
    \/ SetupNextTeam
    \/ \E f \in FixtureInputs : AddFixture(f[1], f[2], f[3])
    \/ \E i \in 1..MaxFixtures, hg \in GoalInputs, ag \in GoalInputs :
            UpdateFixtureResult(i, hg, ag)
    \/ UpdateLeagueTable
    \/ AdvanceGameweek
    \/ ResetSeason

Spec == Init /\ [][Next]_vars

----------------------------------------------------------------------------
(* update_league_table statement by statement, beside writers on other     *)
(* connections.  Every method opens its own sqlite3 connection; the first   *)
(* UPDATE of a connection begins a transaction and takes the write lock of  *)
(* the database file, which it holds until commit.  A write on another      *)
(* connection waits for the lock (sqlite3.connect's timeout) and gives up   *)
(* with OperationalError when the wait runs out.                            *)

\* mutant: a database without the write lock
WriteLockedNever == FALSE

\* the write lock is held by the update_league_table in flight
WriteLocked == txn.pc # "idle"

\* update_league_table: UPDATE league_table SET played=0, ... (uncommitted);
\* txn.before keeps the fixtures as they were at this moment
TxnBegin ==
    /\ txn.pc = "idle"
    /\ txn' = [txn EXCEPT !.pc = "select", !.table = ResetLeagueTable(league_table),
                          !.before = fixtures]
    /\ UNCHANGED <<storeVars, simVars, op, handlers>>

\* update_league_table: SELECT ... WHERE is_played = TRUE, cursor.fetchall()
TxnSelect ==
    /\ txn.pc = "select"
    /\ txn' = [txn EXCEPT !.pc = "fold", !.rows = SelectPlayed(fixtures)]
    /\ UNCHANGED <<storeVars, simVars, op, handlers>>

\* update_league_table: one iteration of the loop over the fetched rows
TxnFold ==
    /\ txn.pc = "fold"
    /\ txn.rows # << >>
    /\ txn' = [txn EXCEPT !.table = FoldFixture(txn.table, Head(txn.rows)),
                          !.rows = Tail(txn.rows)]
    /\ UNCHANGED <<storeVars, simVars, op, handlers>>

\* update_league_table: conn.commit()
TxnCommit ==
    /\ txn.pc = "fold"
    /\ txn.rows = << >>
    /\ league_table' = txn.table
    /\ txn' = [NoTxn EXCEPT !.waiting = txn.waiting]
    /\ op' = "update_league_table"
    /\ UNCHANGED <<teams, fixtures, current_gameweek, user_team, simVars, handlers>>

\* add_team and add_fixture on another connection
ConnAddTeam == ~WriteLocked /\ SetupNextTeam

ConnAddFixture(gameweek, home_team, away_team) ==
    ~WriteLocked /\ AddFixture(gameweek, home_team, away_team)

\* update_fixture_result on another connection, the lock being free
ConnRecord(fixture_id, home_goals, away_goals) ==
    /\ ~WriteLocked
    /\ txn.waiting = << >>
    /\ UpdateFixtureResult(fixture_id, home_goals, away_goals)

\* update_fixture_result on another connection, the lock being held: the
\* UPDATE waits
ConnRecordWaits(fixture_id, home_goals, away_goals) ==
    /\ WriteLocked
    /\ txn.waiting = << >>
    /\ fixture_id \in DOMAIN fixtures
    /\ txn' = [txn EXCEPT !.waiting = <<fixture_id, home_goals, away_goals>>]
    /\ UNCHANGED <<storeVars, simVars, op, handlers>>

\* the waiting UPDATE gets the lock and is committed
ConnRecordResumes ==
    /\ ~WriteLocked
    /\ txn.waiting # << >>
    /\ fixtures' = UpdateFixtureResultOp(fixtures, txn.waiting[1], txn.waiting[2],
                                         txn.waiting[3])
    /\ txn' = [txn EXCEPT !.waiting = << >>]
    /\ op' = "update_fixture_result"
    /\ UNCHANGED <<teams, league_table, current_gameweek, user_team, simVars, handlers>>

\* the wait runs out: OperationalError, nothing is written
ConnRecordTimesOut ==
    /\ WriteLocked
    /\ txn.waiting # << >>
    /\ txn' = [txn EXCEPT !.waiting = << >>]
    /\ UNCHANGED <<storeVars, simVars, op, handlers>>

NextConn ==
    \/ ConnAddTeam
    \/ \E f \in FixtureInputs : ConnAddFixture(f[1], f[2], f[3])
    \/ \E i \in 1..MaxFixtures, hg \in GoalInputs, ag \in GoalInputs :
            \/ ConnRecord(i, hg, ag)
            \/ ConnRecordWaits(i, hg, ag)
    \/ ConnRecordResumes
    \/ ConnRecordTimesOut
    \/ TxnBegin
    \/ TxnSelect
    \/ TxnFold
    \/ TxnCommit

SpecConn == Init /\ [][NextConn]_vars

----------------------------------------------------------------------------
(* The scraper's FixturesPipeline (scraper/fixtures_scraper/pipelines.py)   *)
(* writing to the same store.  An item is a dict; a field that was never    *)
(* set is a missing key, a field set to None holds NULL.                    *)

\* clean_team_name: "" for a missing name, the aliases mapped, others kept
CleanTeamName(name) ==
    CASE name = "Sheffield Utd" -> "Sheffield United"
      [] OTHER -> name

\* parse_gameweek for an item without a date: the number in the field, else 1
ParseGameweek(gameweek) == IF gameweek = NULL THEN 1 ELSE gameweek

\* ensure_team_exists on the rows of teams (add_team(name, 50, 50, 50) when
\* get_team_stats finds nothing; no operation next to the pipeline reads ratings)
EnsureTeamExists(names, name) ==
    IF name \in Range(names) THEN names ELSE Append(names, name)

\* add_team's INSERT OR IGNORE INTO league_table for every name of names
WithRows(table, names) ==
    [n \in DOMAIN table \cup Range(names) |->
        IF n \in DOMAIN table THEN table[n] ELSE ZeroRow]

\* process_fixture_item after add_fixture: "If match is completed, update the
\* result" on the first unplayed fixture of the gameweek with these two teams,
\* in the order of get_gameweek_fixtures.  int(None) raises TypeError, which
\* the method's except clause logs: the fixture stays as add_fixture left it.
IngestResult(fs, item, gameweek, home_team, away_team) ==
    IF ~(Get(item, "is_played", FALSE) /\ Get(item, "home_goals", NULL) # NULL)
    THEN fs
    ELSE IF Get(item, "away_goals", 0) = NULL
    THEN fs
    ELSE LET matching == { i \in GameweekIds(fs, gameweek) :
                              /\ fs[i].home_team = home_team
                              /\ fs[i].away_team = away_team
                              /\ ~fs[i].is_played }
             first == CHOOSE i \in matching :
                          \A j \in matching \ {i} : FixtureBefore(fs, i, j)
         IN  UpdateFixtureResultOp(fs, first, item.home_goals, Get(item, "away_goals", 0))

\* scraped items: names as the page spells them, gameweek and goals as parsed
ItemScores == { <<NULL, NULL>>, <<1, NULL>>, <<0, 0>>, <<NULL - 1, 1>> }

ItemInputs ==
    { [home_team |-> h, away_team |-> a, gameweek |-> g, is_played |-> p,
       home_goals |-> s[1], away_goals |-> s[2]] :
        h \in {"Arsenal", "Sheffield Utd", ""}, a \in {"Chelsea", "Arsenal"},
        g \in {NULL, MaxGameweek}, p \in BOOLEAN, s \in ItemScores }
    \cup { [home_team |-> "Arsenal", away_team |-> "Chelsea", gameweek |-> NULL,
            is_played |-> TRUE, home_goals |-> 1] }

\* process_fixture_item
ProcessFixtureItem(item) ==
    LET home_team == CleanTeamName(Get(item, "home_team", ""))
        away_team == CleanTeamName(Get(item, "away_team", ""))
        valid == home_team # "" /\ away_team # ""
        names == EnsureTeamExists(EnsureTeamExists(teams, home_team), away_team)
        gameweek == ParseGameweek(Get(item, "gameweek", NULL))
        added == Append(fixtures, NewFixture(gameweek, home_team, away_team, user_team))
    IN  /\ Len(fixtures) < MaxFixtures
        /\ teams' = IF valid THEN names ELSE teams
        /\ league_table' = IF valid THEN WithRows(league_table, names) ELSE league_table
        /\ fixtures' = IF valid
                       THEN IngestResult(added, item, gameweek, home_team, away_team)
                       ELSE fixtures
        /\ op' = "process_fixture_item"
        /\ UNCHANGED <<current_gameweek, user_team, simVars, procVars>>

\* the pipeline and the callers of the DatabaseManager API on one store
NextIngest ==
    \/ \E item \in ItemInputs : ProcessFixtureItem(item)
    \/ \E f \in FixtureInputs : AddFixture(f[1], f[2], f[3])
    \/ \E i \in 1..MaxFixtures, hg \in ApiGoalInputs, ag \in ApiGoalInputs :
            UpdateFixtureResult(i, hg, ag)
    \/ ResetSeason

SpecIngest == Init /\ [][NextIngest]_vars

----------------------------------------------------------------------------
(* The Streamlit session (streamlit_app.py): one action per button handler. *)
(* Every handler runs in a rerun of the script, which reads the store anew. *)

UiLevels == {"basic", "rating", "stats"}

\* db.get_team_stats(team) or {'overall_rating': 50}
UiStats(names, team) ==
    IF GetTeamStats(names, team) = << >>
    THEN [overall_rating |-> 50]
    ELSE GetTeamStats(names, team)

\* Draws of the generator followed in a session: of the counts of successful
\* chances of the rating level, none, one and all
SessionHits == {0, 1, NumChances}

SessionDraw(d) ==
    d.kind = "rating" => d.hits_home \in SessionHits /\ d.hits_away \in SessionHits

\* the goals simulate_match can return for a call, over these draws
GoalsPossible(home_stats, away_stats, level, gameweek) ==
    { SimulateGoals(home_stats, away_stats, level, gameweek, d) :
        d \in { x \in DrawsOf(home_stats, away_stats, level, gameweek) :
                    /\ DrawsPossible(home_stats, away_stats, level, gameweek, x)
                    /\ SessionDraw(x) } }

\* the same for the stats dicts the session can pass (evaluated once)
UiStatsInputs ==
    { UiStats(<<n>>, n) : n \in TeamNames } \cup { [overall_rating |-> 50] }

UiGoals ==
    [hs \in UiStatsInputs, as \in UiStatsInputs, level \in UiLevels |->
        GoalsPossible(hs, as, level, 1)]

\* show_fixtures_page: st.selectbox raises StreamlitAPIException when index is
\* not a position of options; the page passes index = current_gw - 1
FixturesPageRaises(gw) == (gw - 1) \notin 0..(Cardinality(SelectableGameweeks) - 1)

\* show_fixtures_page: the widgets that act are drawn when the selected gameweek
\* is the current one and it has fixtures; selectbox(range(1, 39), index=current_gw - 1)
PageShown(gw) == ~FixturesPageRaises(gw) /\ GameweekIds(fixtures, gw) # {}

OtherFixtures(fs, gw) == { i \in GameweekIds(fs, gw) : ~fs[i].is_user_team }

\* can_simulate of show_fixtures_page
CanSimulate(fs, gw) ==
    IF FirstUserFixture(fs, gw) = 0 THEN TRUE ELSE fs[FirstUserFixture(fs, gw)].is_played

\* simulate_single_match: one possible outcome per element of the result
SimulateSingleMatch(names, fs, i, level) ==
    { UpdateFixtureResultOp(fs, i, g[1], g[2]) :
        g \in UiGoals[UiStats(names, fs[i].home_team),
                      UiStats(names, fs[i].away_team), level] }

\* simulate_gameweek_matches: the listed fixtures in order, the ones that were
\* unplayed when the page was drawn
RECURSIVE SimulateGameweekMatches(_, _, _, _)
SimulateGameweekMatches(names, fs, ids, level) ==
    IF ids = {}
    THEN { fs }
    ELSE LET i == CHOOSE x \in ids : \A y \in ids \ {x} : FixtureBefore(fs, x, y)
         IN  UNION { SimulateGameweekMatches(names, g, ids \ {i}, level) :
                        g \in SimulateSingleMatch(names, fs, i, level) }

\* Admin: the "Add Team" form, filled in with the next team of the list
UiAddTeam == SetupNextTeam

\* Admin: "Setup Premier League Teams": add_team for every entry of the list,
\* the ones already stored are refused
UiSetupTeams ==
    LET missing == SelectSeq(SetupTeams, LAMBDA t : t.name \notin Range(teams))
    IN  /\ missing # << >>
        /\ teams' = teams \o [i \in DOMAIN missing |-> missing[i].name]
        /\ league_table' = [n \in TeamNames |->
                                IF n \in DOMAIN league_table THEN league_table[n]
                                ELSE ZeroRow]
        /\ op' = "add_team"
        /\ UNCHANGED <<fixtures, current_gameweek, user_team, simVars, procVars>>

\* Admin: the "Add Fixture" form: both teams picked from the stored teams, the
\* away team among the others
UiAddFixture(gameweek, home_team, away_team) ==
    /\ Len(teams) >= 2
    /\ gameweek \in SelectableGameweeks
    /\ home_team \in Range(teams)
    /\ away_team \in Range(teams) \ {home_team}
    /\ AddFixture(gameweek, home_team, away_team)

\* Fixtures: "Submit Result" of the user's match
UiSubmitResult(home_goals, away_goals) ==
    LET uf == FirstUserFixture(fixtures, current_gameweek)
    IN  /\ PageShown(current_gameweek)
        /\ uf # 0
        /\ ~fixtures[uf].is_played
        /\ UpdateFixtureResult(uf, home_goals, away_goals)

\* Fixtures: "Sim" next to an unplayed match of the others
UiSimulateSingle(i, level) ==
    /\ PageShown(current_gameweek)
    /\ i \in OtherFixtures(fixtures, current_gameweek)
    /\ ~fixtures[i].is_played
    /\ CanSimulate(fixtures, current_gameweek)
    /\ fixtures' \in SimulateSingleMatch(teams, fixtures, i, level)
    /\ op' = "update_fixture_result"
    /\ UNCHANGED <<teams, league_table, current_gameweek, user_team, simVars, procVars>>

\* Fixtures: "Simulate All Remaining Matches"
UiSimulateAll(level) ==
    LET others == OtherFixtures(fixtures, current_gameweek)
    IN  /\ PageShown(current_gameweek)
        /\ others # {}
        /\ CanSimulate(fixtures, current_gameweek)
        /\ fixtures' \in SimulateGameweekMatches(teams, fixtures,
                            { i \in others : ~fixtures[i].is_played }, level)
        /\ op' = "update_fixture_result"
        /\ UNCHANGED <<teams, league_table, current_gameweek, user_team, simVars, procVars>>

\* mutant: the button drawn only once the user's own match is played
AdvanceOfferedWhenUserPlayed ==
    /\ PageShown(current_gameweek)
    /\ AllPlayed(fixtures, current_gameweek)
    /\ FirstUserFixture(fixtures, current_gameweek) # 0

\* show_fixtures_page: the "Advance to Next Gameweek" button is drawn (the page
\* did not return at "No fixtures found", all fixtures listed are played)
AdvanceOffered ==
    /\ PageShown(current_gameweek)
    /\ AllPlayed(fixtures, current_gameweek)

\* Fixtures: "Advance to Next Gameweek": advance_gameweek, then update_league_table
UiAdvance ==
    /\ AdvanceOffered
    /\ current_gameweek \notin GameweekCaps
    /\ current_gameweek' = current_gameweek + 1
    /\ league_table' = UpdateLeagueTableOp(league_table, fixtures)
    /\ op' = "advance"
    /\ UNCHANGED <<teams, fixtures, user_team, simVars, procVars>>

\* Fixtures: "View Updated Table"
UiViewUpdatedTable ==
    /\ PageShown(current_gameweek)
    /\ AllPlayed(fixtures, current_gameweek)
    /\ UpdateLeagueTable

\* show_league_table and Admin "Recalculate League Table"
UiShowLeagueTable == UpdateLeagueTable

\* Settings: "Update Team"
UiUpdateTeam(team) ==
    /\ team \in Range(teams)
    /\ user_team' = team
    /\ op' = "update_team"
    /\ UNCHANGED <<teams, fixtures, league_table, current_gameweek, simVars, procVars>>

NextUI ==
    \/ UiAddTeam
    \/ UiSetupTeams
    \/ \E f \in FixtureInputs : UiAddFixture(f[1], f[2], f[3])
    \/ \E hg \in GoalInputs, ag \in GoalInputs : UiSubmitResult(hg, ag)
    \/ \E i \in 1..MaxFixtures, level \in UiLevels : UiSimulateSingle(i, level)
    \/ \E level \in UiLevels : UiSimulateAll(level)
    \/ UiAdvance
    \/ UiViewUpdatedTable
    \/ UiShowLeagueTable
    \/ \E t \in TeamNames : UiUpdateTeam(t)

SpecUI == Init /\ [][NextUI]_vars

\* The end of a season: the store after 37 calls of advance_gameweek, then the
\* session's handlers, advance_gameweek and reset_season called on the store
InitLate ==
    /\ teams = << >>
    /\ fixtures = << >>
    /\ league_table = << >>
    /\ current_gameweek = Cardinality(SelectableGameweeks)
    /\ user_team = "Sheffield United"
    /\ sim_call = NoCall
    /\ rng = NoDraws
    /\ result = NoResult
    /\ op = "advance_gameweek"
    /\ txn = NoTxn
    /\ handlers = NoHandlers

NextLate ==
    \/ UiSetupTeams
    \/ \E f \in LateFixtureInputs : UiAddFixture(f[1], f[2], f[3])
    \/ \E hg \in GoalInputs, ag \in GoalInputs : UiSubmitResult(hg, ag)
    \/ \E i \in 1..MaxFixtures, level \in UiLevels : UiSimulateSingle(i, level)
    \/ \E level \in UiLevels : UiSimulateAll(level)
    \/ UiAdvance
    \/ UiViewUpdatedTable
    \/ UiShowLeagueTable
    \/ \E t \in TeamNames : UiUpdateTeam(t)
    \/ AdvanceGameweek
    \/ ResetSeason

SpecLate == InitLate /\ [][NextLate]_vars

\* Two browser sessions on the one store.  Streamlit runs the script of each
\* session in a thread of its own, so the handler of "Advance to Next
\* Gameweek" is three steps another session can run between: the rerun reads
\* the gameweek and its fixtures and finds the button pressed, advance_gameweek
\* runs, update_league_table runs.  (The counter is followed one past
\* MaxGameweek.)
SessionClickAdvance(s) ==
    /\ handlers[s] = "idle"
    /\ PageShown(current_gameweek)
    /\ AllPlayed(fixtures, current_gameweek)
    /\ handlers' = [handlers EXCEPT ![s] = "advance_gameweek"]
    /\ UNCHANGED <<storeVars, simVars, op, txn>>

SessionAdvanceGameweek(s) ==
    /\ handlers[s] = "advance_gameweek"
    /\ current_gameweek <= MaxGameweek
    /\ current_gameweek' = current_gameweek + 1
    /\ handlers' = [handlers EXCEPT ![s] = "update_league_table"]
    /\ op' = "advance_gameweek"
    /\ UNCHANGED <<teams, fixtures, league_table, user_team, simVars, txn>>

SessionUpdateLeagueTable(s) ==
    /\ handlers[s] = "update_league_table"
    /\ league_table' = UpdateLeagueTableOp(league_table, fixtures)
    /\ handlers' = [handlers EXCEPT ![s] = "idle"]
    /\ op' = "advance"
    /\ UNCHANGED <<teams, fixtures, current_gameweek, user_team, simVars, txn>>

NextSessions ==
    \/ UiSetupTeams
    \/ \E f \in FixtureInputs : UiAddFixture(f[1], f[2], f[3])
    \/ \E hg \in GoalInputs, ag \in GoalInputs : UiSubmitResult(hg, ag)
    \/ \E i \in 1..MaxFixtures : UiSimulateSingle(i, "basic")
    \/ \E s \in Sessions :
            \/ SessionClickAdvance(s)
            \/ SessionAdvanceGameweek(s)
            \/ SessionUpdateLeagueTable(s)

SpecSessions == Init /\ [][NextSessions]_vars

\* The simulator on its own: every call of SimCalls with every sequence of
\* draws the generator can produce for it
InitSim ==
    /\ teams = << >>
    /\ fixtures = << >>
    /\ league_table = << >>
    /\ current_gameweek = 1
    /\ user_team = "Sheffield United"
    /\ sim_call \in SimCalls
    /\ rng \in DrawsOf(sim_call.home_stats, sim_call.away_stats,
                        sim_call.simulation_level, sim_call.gameweek)
    /\ DrawsPossible(sim_call.home_stats, sim_call.away_stats,
                     sim_call.simulation_level, sim_call.gameweek, rng)
    /\ result = NoResult
    /\ op = "call_simulate_match"
    /\ txn = NoTxn
    /\ handlers = NoHandlers

NextSim == SimulateMatch

SpecSim == InitSim /\ [][NextSim]_vars

\* The simulator called with malformed ratings: every call of MalformedCalls,
\* with the draws the generator can produce for it when it gets that far
InitMalformed ==
    /\ teams = << >>
    /\ fixtures = << >>
    /\ league_table = << >>
    /\ current_gameweek = 1
    /\ user_team = "Sheffield United"
    /\ sim_call \in MalformedCalls
    /\ IF Raises(sim_call.home_stats, sim_call.away_stats, sim_call.simulation_level)
       THEN rng = NoDraws
       ELSE /\ rng \in DrawsOf(sim_call.home_stats, sim_call.away_stats,
                                sim_call.simulation_level, sim_call.gameweek)
            /\ DrawsPossible(sim_call.home_stats, sim_call.away_stats,
                             sim_call.simulation_level, sim_call.gameweek, rng)
    /\ result = NoResult
    /\ op = "call_simulate_match"
    /\ txn = NoTxn
    /\ handlers = NoHandlers

NextMalformed == SimulateMatch

SpecMalformed == InitMalformed /\ [][NextMalformed]_vars

\* The probability estimator on its own, for every pair of ratings
InitProb ==
    /\ teams = << >>
    /\ fixtures = << >>
    /\ league_table = << >>
    /\ current_gameweek = 1
    /\ user_team = "Sheffield United"
    /\ sim_call \in { [home_stats |-> hs, away_stats |-> as, simulation_level |-> "",
                       gameweek |-> 0] : hs \in ProbabilityStats, as \in ProbabilityStats }
    /\ rng = NoDraws
    /\ result = NoResult
    /\ op = "call_get_result_probability"
    /\ txn = NoTxn
    /\ handlers = NoHandlers

\* MatchSimulator.get_result_probability
GetResultProbability ==
    /\ op = "call_get_result_probability"
    /\ result' = GetResultProbabilityOp(sim_call.home_stats, sim_call.away_stats)
    /\ op' = "get_result_probability"
    /\ UNCHANGED <<storeVars, sim_call, rng, procVars>>

NextProb == GetResultProbability

SpecProb == InitProb /\ [][NextProb]_vars

----------------------------------------------------------------------------
(* Properties *)

RECURSIVE SumOver(_, _, _)
SumOver(table, names, column) ==
    IF names = {}
    THEN 0
    ELSE LET t == CHOOSE x \in names : TRUE
         IN  table[t][column] + SumOver(table, names \ {t}, column)

TableSum(column) == SumOver(league_table, DOMAIN league_table, column)

PlayedIds == { i \in DOMAIN fixtures : fixtures[i].is_played }
DecisiveIds == { i \in PlayedIds : fixtures[i].home_goals # fixtures[i].away_goals }
DrawnIds == { i \in PlayedIds : fixtures[i].home_goals = fixtures[i].away_goals }

\* what the played fixtures give a team, counted fixture by fixture
RECURSIVE GoalsFor(_, _), GoalsAgainst(_, _), PointsWon(_, _)
GoalsFor(t, ids) ==
    IF ids = {} THEN 0
    ELSE LET i == CHOOSE x \in ids : TRUE
             f == fixtures[i]
         IN  (IF f.home_team = t THEN f.home_goals ELSE 0)
             + (IF f.away_team = t THEN f.away_goals ELSE 0)
             + GoalsFor(t, ids \ {i})
GoalsAgainst(t, ids) ==
    IF ids = {} THEN 0
    ELSE LET i == CHOOSE x \in ids : TRUE
             f == fixtures[i]
         IN  (IF f.home_team = t THEN f.away_goals ELSE 0)
             + (IF f.away_team = t THEN f.home_goals ELSE 0)
             + GoalsAgainst(t, ids \ {i})
PointsWon(t, ids) ==
    IF ids = {} THEN 0
    ELSE LET i == CHOOSE x \in ids : TRUE
             f == fixtures[i]
             side(mine, theirs) == IF mine > theirs THEN 3 ELSE IF mine = theirs THEN 1 ELSE 0
         IN  (IF f.home_team = t THEN side(f.home_goals, f.away_goals) ELSE 0)
             + (IF f.away_team = t THEN side(f.away_goals, f.home_goals) ELSE 0)
             + PointsWon(t, ids \ {i})

Recomputed == op = "update_league_table"

\* C1: after a standings recompute every row's goal_difference is its
\* goals_for minus its goals_against, the last folded-in match included.
C1_GoalDifferenceOfTotals ==
    Recomputed =>
        \A t \in DOMAIN league_table :
            league_table[t].goal_difference
                = league_table[t].goals_for - league_table[t].goals_against

\* C4: after a standings recompute the points of all rows add up to 3 per
\* played fixture with unequal goals plus 2 per played fixture with equal goals.
C4_PointsConserved ==
    Recomputed =>
        TableSum("points") = 3 * Cardinality(DecisiveIds) + 2 * Cardinality(DrawnIds)

\* C5: after a standings recompute the goals_for of all rows add up to the
\* goals_against of all rows.
C5_GoalsConserved ==
    Recomputed => TableSum("goals_for") = TableSum("goals_against")

\* C6: an advance while a fixture of the current gameweek is unplayed leaves
\* current_gameweek unchanged (it is refused).
C6_AdvanceRefusedWhileUnplayed ==
    [][(op' = "advance_gameweek" /\ ~AllPlayed(fixtures, current_gameweek))
            => current_gameweek' = current_gameweek]_vars

\* C7: after the advance of the session (all fixtures of the gameweek played)
\* the gameweek is one further and the standings reflect exactly the played
\* fixtures: every row has the points and the goal difference they give.
C7_TableReflectsResultsAfterAdvance ==
    op = "advance" =>
        \A t \in DOMAIN league_table :
            /\ league_table[t].points = PointsWon(t, PlayedIds)
            /\ league_table[t].goal_difference
                    = GoalsFor(t, PlayedIds) - GoalsAgainst(t, PlayedIds)

\* C8: the recompute run twice on unchanged fixtures gives the same ordered
\* table (rows, values, positions) as run once, whatever the table held before.
C8_RecomputeIdempotent ==
    LET once == UpdateLeagueTableOp(league_table, fixtures)
        twice == UpdateLeagueTableOp(once, fixtures)
    IN  /\ GetLeagueTableOf(twice, teams) = GetLeagueTableOf(once, teams)
        /\ Recomputed => GetLeagueTableOf(once, teams) = GetLeagueTable

C8_Witness ==
    /\ Recomputed
    /\ Len(teams) >= 2
    /\ \E t \in DOMAIN league_table : league_table[t].points > 0
    /\ \E i \in DOMAIN teams : GetLeagueTable[i].team # teams[i]

\* the order of the claim, stated on the three columns
RankedAtLeast(a, b) ==
    \/ a.points > b.points
    \/ a.points = b.points /\ a.goal_difference > b.goal_difference
    \/ a.points = b.points /\ a.goal_difference = b.goal_difference
       /\ a.goals_for >= b.goals_for

ExampleRows ==
    [n \in {"row1", "row2", "row3"} |->
        [ZeroRow EXCEPT !.points = (CASE n = "row1" -> 10 [] n = "row2" -> 10 [] OTHER -> 8),
                        !.goal_difference =
                            (CASE n = "row1" -> 3 [] n = "row2" -> 5 [] OTHER -> 9)]]

\* C9: the league table lists every team once, by points descending, then
\* goal_difference descending, then goals_for descending, with positions 1..N;
\* rows with points (10,10,8) and goal_difference (3,5,9) come out as
\* [row2, row1, row3].
C9_TableOrdered ==
    LET table == GetLeagueTable
    IN  /\ DOMAIN table = 1..Len(teams)
        /\ { table[i].team : i \in DOMAIN table } = Range(teams)
        /\ \A i \in DOMAIN table :
                table[i].position = i /\ table[i].row = league_table[table[i].team]
        /\ \A i, j \in DOMAIN table : i < j => RankedAtLeast(table[i].row, table[j].row)
        /\ LET example == GetLeagueTableOf(ExampleRows, <<"row1", "row2", "row3">>)
           IN  <<example[1].team, example[2].team, example[3].team>>
                    = <<"row2", "row1", "row3">>

C9_Witness ==
    \E i, j \in DOMAIN teams :
        /\ i < j
        /\ league_table[teams[i]].points = league_table[teams[j]].points
        /\ league_table[teams[i]].goal_difference < league_table[teams[j]].goal_difference
        /\ \E k \in DOMAIN teams :
                GetLeagueTable[k].team = teams[j] /\ GetLeagueTable[k + 1].team = teams[i]

RemoveAt(fs, i) == SubSeq(fs, 1, i - 1) \o SubSeq(fs, i + 1, Len(fs))

\* an unplayed fixture between any two teams in any gameweek, as add_fixture
\* stores it
UnplayedFixtures ==
    { [gameweek |-> gw, home_team |-> h, away_team |-> a, home_goals |-> NULL,
       away_goals |-> NULL, is_played |-> FALSE,
       is_user_team |-> (h = user_team \/ a = user_team)] :
        gw \in 1..MaxGameweek, h \in TeamNames, a \in TeamNames }

\* C10: the recomputed standings depend on the played fixtures alone: with an
\* unplayed fixture added, removed or changed every row comes out the same,
\* and a team without a played fixture gets the all-zero row.
C10_UnplayedFixturesIgnored ==
    LET once == UpdateLeagueTableOp(league_table, fixtures)
    IN  /\ \A f \in UnplayedFixtures :
                /\ UpdateLeagueTableOp(league_table, Append(fixtures, f)) = once
                /\ \A i \in DOMAIN fixtures \ PlayedIds :
                        UpdateLeagueTableOp(league_table, [fixtures EXCEPT ![i] = f]) = once
        /\ \A i \in DOMAIN fixtures \ PlayedIds :
                UpdateLeagueTableOp(league_table, RemoveAt(fixtures, i)) = once
        /\ \A t \in DOMAIN league_table :
                (\A i \in PlayedIds : fixtures[i].home_team # t /\ fixtures[i].away_team # t)
                    => once[t] = ZeroRow
        /\ Recomputed => league_table = once

C10_Witness ==
    /\ Recomputed
    /\ PlayedIds # {}
    /\ \E i \in DOMAIN fixtures \ PlayedIds :
            /\ fixtures[i].home_team \in DOMAIN league_table
            /\ league_table[fixtures[i].home_team] = ZeroRow
    /\ \E t \in DOMAIN league_table : league_table[t] # ZeroRow

Returned == op = "simulate_match"

\* C2: the goals simulate_match returns are integers from 0 to 7 on both
\* sides, at every level and for every sequence of draws.
C2_GoalsWithinCap ==
    Returned => result.home_goals \in 0..7 /\ result.away_goals \in 0..7

C2_Witness ==
    /\ Returned
    /\ sim_call.simulation_level = "rating"
    /\ rng.hits_home > 7
    /\ result.home_goals = 7

\* C3: the returned result is "H" exactly when home_goals > away_goals, "A"
\* exactly when away_goals > home_goals and "D" otherwise, at every level.
C3_ResultMatchesGoals ==
    Returned =>
        /\ result.result = "H" <=> result.home_goals > result.away_goals
        /\ result.result = "A" <=> result.away_goals > result.home_goals
        /\ result.result = "D" <=> result.home_goals = result.away_goals

C3_Witness ==
    /\ Returned
    /\ sim_call.simulation_level = "stats"
    /\ result.result = "D"
    /\ result.home_goals > 0

\* C12: a call of update_fixture_result for an id that is not in the store does
\* not return normally.  Every call that matches a row leaves that row played
\* and no operation removes rows, so after a call that returned some fixture
\* is played.
C12_MissingFixtureReported ==
    op = "update_fixture_result" => PlayedIds # {}

\* C13: recording (home_goals, away_goals) for a fixture twice gives the
\* fixture store, and the standings recomputed from it, of recording it once;
\* a later recording with other goals leaves exactly those goals.
C13_RecordingOverwrites ==
    \A i \in DOMAIN fixtures, hg \in GoalInputs, ag \in GoalInputs :
        LET once == UpdateFixtureResultOp(fixtures, i, hg, ag)
            twice == UpdateFixtureResultOp(once, i, hg, ag)
        IN  /\ twice = once
            /\ UpdateLeagueTableOp(league_table, twice)
                    = UpdateLeagueTableOp(league_table, once)
            /\ \A hg2 \in GoalInputs, ag2 \in GoalInputs :
                    LET later == UpdateFixtureResultOp(once, i, hg2, ag2)
                    IN  /\ later[i].home_goals = hg2
                        /\ later[i].away_goals = ag2
                        /\ later[i].is_played
                        /\ \A j \in DOMAIN fixtures \ {i} : later[j] = fixtures[j]

\* the only fixture was recorded, folded into the standings and then
\* recorded again with other goals
C13_Witness ==
    /\ op = "update_fixture_result"
    /\ Len(fixtures) = 1
    /\ fixtures[1].is_played
    /\ fixtures[1].home_team \in DOMAIN league_table
    /\ league_table[fixtures[1].home_team].played = 1
    /\ league_table[fixtures[1].home_team].goals_for # fixtures[1].home_goals

\* C14: every fixture's is_user_team flag says whether its home team or its
\* away team is the user team of game_state, also after "Update Team".
C14_UserTeamFlagCurrent ==
    \A i \in DOMAIN fixtures :
        fixtures[i].is_user_team
            <=> (fixtures[i].home_team = user_team \/ fixtures[i].away_team = user_team)

\* C15: the home team and the away team of every stored fixture are rows of
\* the teams table and are two different teams.
C15_FixtureTeamsExistAndDiffer ==
    \A i \in DOMAIN fixtures :
        /\ fixtures[i].home_team \in Range(teams)
        /\ fixtures[i].away_team \in Range(teams)
        /\ fixtures[i].home_team # fixtures[i].away_team

\* C11: in the fixture store a fixture is played exactly when both of its goal
\* counts are present, and the goal counts of a played fixture are not negative.
C11_PlayedIffGoalsPresent ==
    \A i \in DOMAIN fixtures :
        /\ fixtures[i].is_played
                <=> (fixtures[i].home_goals # NULL /\ fixtures[i].away_goals # NULL)
        /\ fixtures[i].is_played
                => (fixtures[i].home_goals >= 0 /\ fixtures[i].away_goals >= 0)

Estimated == op = "get_result_probability"

\* the float 1.0 and the double next below it
DoubleOne == <<LimbBase, 0>>
DoubleBelowOne == <<LimbBase - 1, LimbBase - 8>>

\* home_win + draw + away_win as Python adds the three floats
ProbabilitySum == DoubleAdd(DoubleAdd(result.home_win, result.draw), result.away_win)

NonNegativeDouble(x) == x[1] >= 0 /\ x[2] >= 0

\* C16 as stated: the three returned values are non-negative and their sum is
\* exactly 1.0, for every rating difference.
C16_ProbabilitiesSumToOne ==
    Estimated =>
        /\ NonNegativeDouble(result.home_win)
        /\ NonNegativeDouble(result.draw)
        /\ NonNegativeDouble(result.away_win)
        /\ ProbabilitySum = DoubleOne

\* C16 amended: the three returned values are non-negative, the decimal
\* literals they are written as add up to one, and their floating-point sum is
\* 1.0 or the double next below it: exactly 1.0 unless rating_diff > 20 or
\* -10 < rating_diff <= 0.
C16_ProbabilitiesSumToOneRounded ==
    Estimated =>
        LET rating_diff == RatingDiff(sim_call.home_stats, sim_call.away_stats)
            h == ProbabilityHundredths(rating_diff)
        IN  /\ NonNegativeDouble(result.home_win)
            /\ NonNegativeDouble(result.draw)
            /\ NonNegativeDouble(result.away_win)
            /\ h[1] + h[2] + h[3] = 100
            /\ ProbabilitySum \in {DoubleOne, DoubleBelowOne}
            /\ ProbabilitySum = DoubleBelowOne
                    <=> (rating_diff > 20 \/ (rating_diff > -10 /\ rating_diff <= 0))

C16_Witness ==
    /\ Estimated
    /\ RatingDiff(sim_call.home_stats, sim_call.away_stats) = 0
    /\ ProbabilitySum = DoubleBelowOne

\* C17: a call of simulate_match with a level name it does not know returns
\* (it does not raise), and its goals are the scoreline simulate_basic picks
\* for the two overall ratings (default 50) with the draws of the call.
C17_UnknownLevelFallsBack ==
    LET unknown == sim_call.simulation_level \notin KnownLevels
        strength_diff ==
            BasicStrengthDiff(Get(sim_call.home_stats, "overall_rating", 50),
                              Get(sim_call.away_stats, "overall_rating", 50),
                              rng.noise_home, rng.noise_away)
    IN  /\ (op = "call_simulate_match" /\ unknown) => ENABLED SimulateMatch
        /\ (Returned /\ unknown) =>
                /\ <<result.home_goals, result.away_goals>>
                        = BasicScorelines(strength_diff)[rng.choice]
                /\ result.simulation_level = sim_call.simulation_level

C17_Witness ==
    /\ Returned
    /\ sim_call.simulation_level = "expert"
    /\ "attack_rating" \in DOMAIN sim_call.home_stats
    /\ result.home_goals = 4

Advanced == op \in {"advance", "advance_gameweek"}

\* C19: every advance adds exactly 1 to current_gameweek and none is the last:
\* also from gameweek 38 on, the store advances and the fixtures page, which
\* reads the current gameweek, is drawn without error.  (The value 1 of the
\* initial state is the one of Init.)
C19_AdvanceNeverFails ==
    [][/\ Advanced' => current_gameweek' = current_gameweek + 1
       /\ ~FixturesPageRaises(current_gameweek')]_vars

\* C20 as stated: current_gameweek changes in an advance only and user_team in
\* a reassignment only; any other operation leaves both as they were.
C20_SeasonStateFrame ==
    [][/\ current_gameweek' # current_gameweek => Advanced'
       /\ user_team' # user_team => op' = "update_team"]_vars

\* C20 amended: current_gameweek changes in an advance (by one) and in a season
\* reset (back to 1) only, user_team in a reassignment only; any other
\* operation leaves both as they were.
C20_SeasonStateFrameWithReset ==
    [][/\ current_gameweek' # current_gameweek =>
            \/ Advanced' /\ current_gameweek' = current_gameweek + 1
            \/ op' = "reset_season" /\ current_gameweek' = 1
       /\ user_team' # user_team => op' = "update_team"
       /\ op' = "reset_season" => current_gameweek' = 1 /\ user_team' = user_team
       /\ Advanced' => user_team' = user_team
       /\ op' = "update_team" => current_gameweek' = current_gameweek]_vars

\* the season was reset from a later gameweek after the user team was reassigned
C20_Witness ==
    /\ op = "reset_season"
    /\ current_gameweek = 1
    /\ user_team # "Sheffield United"
    /\ fixtures # << >>

RatingKeys == {"overall_rating", "attack_rating", "defense_rating"}

\* the coercion the specification asks for: a rating that is not a number from
\* 1 to 100 counts as 50
CoerceRating(r) == IF r = NULL THEN 50 ELSE IF r \in 1..100 THEN r ELSE 50

Coerced(stats) ==
    [k \in DOMAIN stats |-> IF k \in RatingKeys THEN CoerceRating(stats[k]) ELSE stats[k]]

\* C21: a call of simulate_match with a malformed rating (None, or an integer
\* outside 1..100) does not fail, and with the same draws it returns the goals
\* it returns when that rating is 50.
C21_MalformedRatingsCoerced ==
    LET home == Coerced(sim_call.home_stats)
        away == Coerced(sim_call.away_stats)
    IN  /\ op = "call_simulate_match" => ENABLED SimulateMatch
        /\ Returned =>
            /\ DrawsPossible(home, away, sim_call.simulation_level,
                             sim_call.gameweek, rng)
            /\ <<result.home_goals, result.away_goals>>
                    = SimulateGoals(home, away, sim_call.simulation_level,
                                    sim_call.gameweek, rng)

LacksRating(stats) == RatingKeys \ DOMAIN stats # {}

\* the stats with every rating that is missing written out as 50
WithNeutralRatings(stats) ==
    [k \in DOMAIN stats \cup RatingKeys |-> IF k \in DOMAIN stats THEN stats[k] ELSE 50]

\* C22: a call of simulate_match in which a side's stats lack a rating (the
\* empty record, or the record {'overall_rating': 50} the caller passes for a
\* team the lookup does not know) returns, at every level, and its goals are
\* those of the call in which the missing overall, attack and defense ratings
\* are 50, for the same draws.
C22_AbsentStatsNeutral ==
    LET missing == LacksRating(sim_call.home_stats) \/ LacksRating(sim_call.away_stats)
        home == WithNeutralRatings(sim_call.home_stats)
        away == WithNeutralRatings(sim_call.away_stats)
    IN  /\ (op = "call_simulate_match" /\ missing) => ENABLED SimulateMatch
        /\ (Returned /\ missing) =>
            /\ DrawsPossible(home, away, sim_call.simulation_level,
                             sim_call.gameweek, rng)
            /\ <<result.home_goals, result.away_goals>>
                    = SimulateGoals(home, away, sim_call.simulation_level,
                                    sim_call.gameweek, rng)
            /\ result.result = ResultOf(result.home_goals, result.away_goals)

C22_Witness ==
    /\ Returned
    /\ sim_call.home_stats = << >>
    /\ sim_call.simulation_level = "rating"
    /\ result.home_goals > result.away_goals

\* C23: when update_league_table commits, the table it leaves equals the
\* recompute of the fixtures as they were when it began or of the fixtures
\* with the result recorded meanwhile on another connection, and of no
\* mixture of the two.
C23_RecomputeSeesSnapshot ==
    [][(txn.pc = "fold" /\ txn'.pc = "idle") =>
            LET after == IF txn.waiting = << >>
                         THEN fixtures'
                         ELSE UpdateFixtureResultOp(fixtures', txn.waiting[1],
                                                    txn.waiting[2], txn.waiting[3])
            IN  league_table' \in { UpdateLeagueTableOp(league_table, txn.before),
                                    UpdateLeagueTableOp(league_table, after) }]_vars

C23_Witness ==
    /\ op = "update_league_table"
    /\ txn.pc = "idle"
    /\ txn.waiting # << >>
    /\ ~fixtures[txn.waiting[1]].is_played
    /\ \E t \in DOMAIN league_table : league_table[t].played > 0

\* C24: with two sessions on the same store, current_gameweek moves on only
\* from a gameweek all of whose fixtures are played.
C24_AdvanceGuardConsistent ==
    [][current_gameweek' > current_gameweek => AllPlayed(fixtures, current_gameweek)]_vars

\* strength_diff of the basic level for the call and the draws of the state
BasicDiffOfCall ==
    BasicStrengthDiff(Get(sim_call.home_stats, "overall_rating", 50),
                      Get(sim_call.away_stats, "overall_rating", 50),
                      rng.noise_home, rng.noise_away)

\* C25: at the basic level both noises are in -15..15, the scoreline returned
\* is one of the list of the bucket of strength_diff, a strength_diff above 10
\* gives a home win, one below -10 an away win, and a draw is returned only
\* for a strength_diff from -10 to 10.
C25_BasicBuckets ==
    (Returned /\ sim_call.simulation_level = "basic") =>
        /\ rng.noise_home \in -15..15
        /\ rng.noise_away \in -15..15
        /\ <<result.home_goals, result.away_goals>>
                \in Range(BasicScorelines(BasicDiffOfCall))
        /\ BasicDiffOfCall > 10 => result.result = "H"
        /\ BasicDiffOfCall < -10 => result.result = "A"
        /\ result.result = "D" => BasicDiffOfCall \in -10..10

C25_Witness ==
    /\ Returned
    /\ sim_call.simulation_level = "basic"
    /\ BasicDiffOfCall = 11
    /\ result.result = "H"
    /\ result.home_goals = 3

StatsReturned == Returned /\ sim_call.simulation_level = "stats"

\* C26 as stated: at the stats level the amount the motivation draw adds to
\* the home strength equals the amount it removes from the away strength, and
\* the draw -m gives the mirror image of the draw m.
C26_MotivationZeroSum ==
    StatsReturned =>
        LET m == rng.motivation
        IN  /\ MotivationAdded(m) = MotivationRemoved(m)
            /\ MotivationAdded(-m) = -MotivationAdded(m)
            /\ MotivationRemoved(-m) = -MotivationRemoved(m)

\* C26 as amended: the motivation draw m in -8..8 adds m to the home strength
\* and removes half of m, rounded down, from the away strength, so that the
\* strength difference moves by m + floor(m / 2); the two sides never move the
\* same way, and the draw -m mirrors the adjustment exactly when m is even
\* (for odd m the away side is one point off the mirror image).
C26_MotivationHalved ==
    StatsReturned =>
        LET m == rng.motivation
            unmotivated == [rng EXCEPT !.motivation = 0]
            shift == StatsStrengthDiff(sim_call.home_stats, sim_call.away_stats,
                                       sim_call.gameweek, rng)
                     - StatsStrengthDiff(sim_call.home_stats, sim_call.away_stats,
                                         sim_call.gameweek, unmotivated)
        IN  /\ m \in -8..8
            /\ 2 * MotivationRemoved(m) \in {m - 1, m}
            /\ shift = m + MotivationRemoved(m)
            /\ MotivationAdded(m) * MotivationRemoved(m) >= 0
            /\ MotivationAdded(-m) = -MotivationAdded(m)
            /\ MotivationRemoved(-m) = (IF m % 2 = 0 THEN 0 ELSE -1) - MotivationRemoved(m)

C26_Witness ==
    /\ StatsReturned
    /\ rng.motivation = -3
    /\ MotivationRemoved(rng.motivation) = -2
    /\ result.away_goals > 0

\* C27: at the stats level a fatigue draw is made exactly when gameweek > 30,
\* it is from 2 to 5 and is taken from both strengths, so the strength
\* difference, both expected goals and the goals returned are those of the
\* same call at a gameweek without fatigue, for the same ratings, form,
\* motivation draw and normal deviations.
C27_FatigueCancels ==
    StatsReturned =>
        LET early == 1
            diff == StatsStrengthDiff(sim_call.home_stats, sim_call.away_stats,
                                      sim_call.gameweek, rng)
            diffEarly == StatsStrengthDiff(sim_call.home_stats, sim_call.away_stats,
                                           early, rng)
        IN  /\ rng.fatigue \in (IF sim_call.gameweek > 30 THEN 2..5 ELSE {0})
            /\ diff = diffEarly
            /\ StatsExpected(diff) = StatsExpected(diffEarly)
            /\ StatsExpected(-diff) = StatsExpected(-diffEarly)
            /\ <<result.home_goals, result.away_goals>>
                    = SimulateWithStats(sim_call.home_stats, sim_call.away_stats,
                                        early, rng)

C27_Witness ==
    /\ StatsReturned
    /\ sim_call.gameweek = 31
    /\ rng.fatigue = 5
    /\ result.home_goals > result.away_goals

\* C28: after a standings recompute every row has played = won + drawn + lost
\* and points = 3 * won + drawn, and its played is the number of played
\* fixtures in which the team is the home or the away side.
C28_RowsCountFixtures ==
    Recomputed =>
        \A t \in DOMAIN league_table :
            LET r == league_table[t]
            IN  /\ r.played = r.won + r.drawn + r.lost
                /\ r.points = 3 * r.won + r.drawn
                /\ r.played = Cardinality({ i \in PlayedIds :
                                    \/ fixtures[i].home_team = t
                                    \/ fixtures[i].away_team = t })

\* C29 as stated: in every state in which every fixture of the current
\* gameweek is played, a gameweek without fixtures included, the page offers
\* the advance.
C29_AdvanceEnabledWhenComplete ==
    AllPlayed(fixtures, current_gameweek) => AdvanceOffered

\* C29 as amended: in every state in which the current gameweek has at least
\* one fixture and all its fixtures are played, the page offers the advance; on
\* a current gameweek without fixtures it does not.
C29_AdvanceEnabledWhenPlayed ==
    /\ (GameweekIds(fixtures, current_gameweek) # {}
            /\ AllPlayed(fixtures, current_gameweek)) => AdvanceOffered
    /\ GameweekIds(fixtures, current_gameweek) = {} => ~AdvanceOffered

C29_Witness ==
    /\ op = "advance"
    /\ current_gameweek = 2
    /\ GameweekIds(fixtures, 1) # {}
    /\ AllPlayed(fixtures, 1)
    /\ FirstUserFixture(fixtures, 1) = 0

\* a step of "Sim" or of "Simulate All Remaining Matches"
Simulates ==
    \/ \E i \in 1..MaxFixtures, level \in UiLevels : UiSimulateSingle(i, level)
    \/ \E level \in UiLevels : UiSimulateAll(level)

\* the fixtures of a gameweek in which the user's team plays
UserTeamIds(gw) ==
    { i \in GameweekIds(fixtures, gw) :
        user_team \in {fixtures[i].home_team, fixtures[i].away_team} }

\* C30: a step of the session changes only fixtures that were unplayed and are
\* of the current gameweek, and a simulation step changes a fixture the user's
\* team does not play in only when every fixture of the user's team in the
\* current gameweek has a result.
C30_SimulationOrdered ==
    [][/\ \A i \in DOMAIN fixtures :
            fixtures'[i] # fixtures[i] =>
                /\ ~fixtures[i].is_played
                /\ fixtures[i].gameweek = current_gameweek
       /\ Simulates =>
            \A i \in DOMAIN fixtures \ UserTeamIds(current_gameweek) :
                fixtures'[i] # fixtures[i] =>
                    \A u \in UserTeamIds(current_gameweek) : fixtures[u].is_played]_vars

=============================================================================
